---- MODULE Spec2Model ----
(***************************************************************************)
(* Model of the ID_Generator backend: the batch route of                   *)
(* backend/src/routes/generate.js (layout search, card placement, CMYK     *)
(* hand-off, upload, response), the Ghostscript converter and validator of *)
(* utils/cmykPdf (the version exporting convertToCMYKWithValidation), and  *)
(* renderOne of backend/src/utils/render.js.                               *)
(*                                                                         *)
(* Lengths are kept exact: page geometry is held in 1/100 pt (595.28 pt =  *)
(* 59528), candidate card widths are whole points, and a card height       *)
(* width / (templateWidth / templateHeight) is the fraction                *)
(* (width * templateHeight) / templateWidth, so every Math.floor of the    *)
(* source is an integer division here.                                     *)
(***************************************************************************)
EXTENDS Integers, Sequences, FiniteSets, TLC

\* ------------------------------------------------------------------ bounds
MaxRows == 3
MaxDim == 5
MaxFields == 2
MaxClock == 2
MaxProcs == 2
MaxUploads == 2
MaxPending == 3

\* --------------------------------------------------------- JS value models
\* NaN, the result of cardCount % 0; never equal to a cell index (>= 0)
NaN == -1
\* undefined / absent (range.start, range.end, imageMeta.width, ...)
undefined == -2

\* ------------------------------------------------- page geometry (1/100 pt)
pageWidth == 59528
pageHeight == 84189
margin == 2000
usableWidth == pageWidth - 2 * margin
usableHeight == pageHeight - 2 * margin

firstTestWidth == 200
testWidthStep == 20
maxTestWidth == 400
fallbackWidth == 280
defaultTemplateWidth == 400
defaultTemplateHeight == 250

MinOf(a, b) == IF a <= b THEN a ELSE b

\* template.imageMeta?.width || 400 ; 0 and undefined are both falsy
templateWidthOf(w) == IF w = undefined \/ w = 0 THEN defaultTemplateWidth ELSE w
templateHeightOf(h) == IF h = undefined \/ h = 0 THEN defaultTemplateHeight ELSE h

\* ---------------------------------------------------------- layout planner
\* one candidate of the width scan: the grid that card width w gives for a
\* template of tw x th pixels
testLayout(w, tw, th) ==
  LET r == usableWidth \div (w * 100)
      c == (usableHeight * tw) \div (100 * w * th)
  IN [found |-> TRUE, cardWidth |-> w, hNum |-> w * th, hDen |-> tw,
      cardsPerRow |-> r, cardsPerCol |-> c, cardsPerPage |-> r * c]

noLayout ==
  [found |-> FALSE, cardWidth |-> 0, hNum |-> 0, hDen |-> 1,
   cardsPerRow |-> 0, cardsPerCol |-> 0, cardsPerPage |-> 0]

\* the acceptance test of the scan, with >= for > (a later tie would win)
acceptsLate(t, maxCardsPerPage) ==
  t.cardsPerPage >= maxCardsPerPage /\ t.cardsPerRow > 0 /\ t.cardsPerCol > 0

accepts(t, maxCardsPerPage) ==
  t.cardsPerPage > maxCardsPerPage /\ t.cardsPerRow > 0 /\ t.cardsPerCol > 0

RECURSIVE scanWidths(_, _, _, _)
scanWidths(testWidth, bestLayout, tw, th) ==
  IF testWidth * 100 <= MinOf(maxTestWidth * 100, usableWidth)
  THEN LET t == testLayout(testWidth, tw, th)
       IN scanWidths(testWidth + testWidthStep,
                     IF accepts(t, bestLayout.cardsPerPage) THEN t ELSE bestLayout,
                     tw, th)
  ELSE bestLayout

\* bestLayout || { cardWidth: 280, ... }
fallbackLayout(tw, th) ==
  [testLayout(fallbackWidth, tw, th) EXCEPT !.found = FALSE]

\* a scan that starts at the fallback width
planLayoutFromFallback(tw, th) ==
  LET best == scanWidths(fallbackWidth, noLayout, tw, th)
  IN IF best.found THEN best ELSE fallbackLayout(tw, th)

\* lines 93-133: the scan from 200, then bestLayout || the fallback
planLayout(tw, th) ==
  LET best == scanWidths(firstTestWidth, noLayout, tw, th)
  IN IF best.found THEN best ELSE fallbackLayout(tw, th)

\* ------------------------------------------------------------ page filling
\* a % b of JavaScript for a >= 0, b >= 0
jsMod(a, b) == IF a = NaN \/ b = 0 THEN NaN ELSE a % b
\* Math.floor(a / b) with a possibly NaN, b > 0 whenever a is a number
jsFloorDiv(a, b) == IF a = NaN \/ b = 0 THEN NaN ELSE a \div b

\* the page break test with the cardCount > 0 guard dropped
startsNewPageAlways(cardCount, cardsPerPage) ==
  jsMod(cardCount, cardsPerPage) = 0

\* doc.addPage() is called: cardCount % cardsPerPage === 0 and cardCount > 0
startsNewPage(cardCount, cardsPerPage) ==
  jsMod(cardCount, cardsPerPage) = 0 /\ cardCount > 0

\* ---------------------------------------------------------------- renderOne
Columns == {"Name", "Photo"}
\* a column that is missing from the record, or a mapping entry that is unset
undefinedValue == "undefined"
\* the values a cell of the sheet may hold
Values ==
  {"", "Alice", "photo.png", "http://host/a", "http://host/a?b&c",
   "data:image/png;base64,AAAA", "/files/templates/0123456789abcdef01234567"}
MappingValues == Columns \cup {undefinedValue}

\* FieldSchema: the type and the stacking index of a field; zIndex is 0
\* unless the editor set it
ZIndexes == {0, 1}
FieldRecords == [type : {"text", "image"}, zIndex : ZIndexes]
DefaultFieldRecords == [type : {"text", "image"}, zIndex : {0}]

\* JavaScript truthiness of a string-or-undefined value
truthy(v) == v \notin {undefinedValue, ""}

\* looksLikeImageUrl(String(sourceValue || ''))
looksLikeImageUrl(v) == v \in Values \ {"", "Alice"}

\* the tests of loadImageBuffer, lines 61, 66 and 77
isDataUri(v) == v = "data:image/png;base64,AAAA"
isFilesRef(v) == v = "/files/templates/0123456789abcdef01234567"
isHttpUrl(v) == v \in {"http://host/a", "http://host/a?b&c"}

\* what a read of one source may do
ReadOutcomes == {"bytes", "nothing", "throws"}

\* a source that the value does not lead to is not read and gives nothing
outcomesOf(applies) == IF applies THEN ReadOutcomes ELSE {"nothing"}

noBuffer(failure) == [buf |-> FALSE, failure |-> failure]
someBuffer == [buf |-> TRUE, failure |-> "none"]

\* loadImageBuffer, lines 57-91: gridfsRead, httpGet and fileRead are what
\* the storage read, the HTTP request (an error or a status of 400 and more
\* both reject) and the local file would do if they were consulted. Every
\* throw is caught by the outer try, so the function returns a buffer or null
loadImageBuffer(value, gridfsRead, httpGet, fileRead) ==
  IF ~truthy(value) THEN noBuffer("none")
  ELSE IF isDataUri(value) THEN someBuffer
  ELSE IF isFilesRef(value) /\ gridfsRead = "bytes" THEN someBuffer
  ELSE IF isHttpUrl(value)
       THEN IF httpGet = "bytes" THEN someBuffer ELSE noBuffer("http")
       ELSE IF fileRead = "bytes" THEN someBuffer
            ELSE IF isFilesRef(value) /\ gridfsRead = "throws"
                 THEN noBuffer("storage")
                 ELSE IF fileRead = "throws" THEN noBuffer("read")
                      ELSE noBuffer("missing")

\* the same function with the storage read done last of all
sourcesConsultedStorageLast(value, gridfsRead, httpGet, fileRead) ==
  IF ~truthy(value) THEN <<>>
  ELSE IF isDataUri(value) THEN <<[source |-> "dataUri", outcome |-> "bytes"]>>
  ELSE (IF isHttpUrl(value)
        THEN <<[source |-> "network", outcome |-> httpGet]>>
        ELSE <<[source |-> "filesystem", outcome |-> fileRead]>>)
       \o (IF isFilesRef(value)
           THEN <<[source |-> "storage", outcome |-> gridfsRead]>>
           ELSE <<>>)

\* the reads loadImageBuffer makes for a value, in the order it makes them,
\* each with what it gave: the data URI is decoded in place (lines 61-64),
\* the storage read comes next and returns on bytes (lines 66-76), an
\* HTTP(S) value returns whatever the fetch gives (lines 77-79), and only
\* then is the local path looked up (lines 80-86)
sourcesConsulted(value, gridfsRead, httpGet, fileRead) ==
  IF ~truthy(value) THEN <<>>
  ELSE IF isDataUri(value) THEN <<[source |-> "dataUri", outcome |-> "bytes"]>>
  ELSE (IF isFilesRef(value)
        THEN <<[source |-> "storage", outcome |-> gridfsRead]>>
        ELSE <<>>)
       \o (IF isFilesRef(value) /\ gridfsRead = "bytes" THEN <<>>
           ELSE IF isHttpUrl(value)
                THEN <<[source |-> "network", outcome |-> httpGet]>>
                ELSE <<[source |-> "filesystem", outcome |-> fileRead]>>)

\* the failure of one field's image, if any: decode is sharp rejecting the
\* bytes (undecodable image, or a data URI whose payload is not an image)
imageFailure(load, resized) ==
  IF load.buf /\ ~resized THEN "decode" ELSE load.failure

\* makeTextSVG interpolates the text into the SVG source without escaping
\* (line 27): a text holding a markup character is not well-formed XML
svgWellFormed(text) == text # "http://host/a?b&c"

\* template.mapping?.[id] ? record[template.mapping[id]] : undefined
sourceValueOf(map, rec, k) ==
  IF truthy(map[k]) THEN rec[map[k]] ELSE undefinedValue

\* the condition of line 119: try to compose the field as an image
triesImage(type, sourceValue) ==
  /\ \/ type = "image"
     \/ (type # "image" /\ looksLikeImageUrl(IF truthy(sourceValue) THEN sourceValue ELSE ""))
  /\ truthy(sourceValue)

\* the text interpolated as it comes, so that undefined prints "undefined"
textOfRaw(sourceValue) == sourceValue

\* String(text || '') of makeTextSVG
textOf(sourceValue) == IF truthy(sourceValue) THEN sourceValue ELSE ""

\* a loop body that skips an image field without a value
layersOfSkipping(k, type, sourceValue, loaded, resized) ==
  IF triesImage(type, sourceValue) /\ loaded /\ resized
  THEN <<[field |-> k, kind |-> "image", text |-> ""]>>
  ELSE IF type = "image" /\ ~truthy(sourceValue)
       THEN <<>>
       ELSE <<[field |-> k, kind |-> "text", text |-> textOf(sourceValue)]>>

\* the layers one pass of the loop body pushes for field number k: loaded is
\* whether loadImageBuffer returned bytes, resized whether sharp resized them
layersOf(k, type, sourceValue, loaded, resized) ==
  IF triesImage(type, sourceValue) /\ loaded /\ resized
  THEN <<[field |-> k, kind |-> "image", text |-> ""]>>
  ELSE <<[field |-> k, kind |-> "text", text |-> textOf(sourceValue)]>>

\* the fields taken by ascending zIndex, ties in array order
fieldOrderByZIndex(flds) ==
  LET low == {k \in 1..Len(flds) : flds[k].zIndex = 0}
      rank(k) == IF k \in low
                 THEN Cardinality({j \in low : j <= k})
                 ELSE Cardinality(low) + Cardinality({j \in (1..Len(flds)) \ low : j <= k})
  IN [n \in 1..Len(flds) |-> CHOOSE k \in 1..Len(flds) : rank(k) = n]

\* for (const field of template.fields || []), line 106: the n-th pass of
\* the loop takes the n-th element of the array; zIndex is not read
fieldOrder(flds) == [n \in 1..Len(flds) |-> n]

\* a card that grows to hold every field (the composite never enlarges)
cardSizeGrown(m, flds) ==
  [width |-> m.width + Len(flds), height |-> m.height + Len(flds)]

\* line 139: { buffer, width: meta.width, height: meta.height }; the fields
\* are composited onto the base image and do not enter the size
cardSize(m, flds) == [width |-> m.width, height |-> m.height]

\* ------------------------------------------------------- colour validation
\* words the analysis subprocess may print; output is the set of words present
Tokens == {"DeviceCMYK", "DeviceRGB", "sRGB", "CMYK", "Color spaces in PDF:"}

\* token.includes(needle) for the needles the validator searches
tokenIncludes(token, needle) ==
  CASE needle = "DeviceCMYK" -> token = "DeviceCMYK"
    [] needle = "CMYK" -> token \in {"DeviceCMYK", "CMYK"}
    [] needle = "DeviceRGB" -> token = "DeviceRGB"
    [] needle = "RGB" -> token \in {"DeviceRGB", "sRGB"}
    [] OTHER -> FALSE

\* output.includes(needle)
includes(output, needle) == \E t \in output : tokenIncludes(t, needle)

\* the object validateCMYKPDF returns when the analysis ran
analysisResult(output) ==
  [isCMYK |-> includes(output, "DeviceCMYK") \/ includes(output, "CMYK"),
   hasRGB |-> includes(output, "DeviceRGB") \/ includes(output, "RGB"),
   fullyConverted |-> includes(output, "DeviceCMYK") /\ ~includes(output, "DeviceRGB"),
   error |-> FALSE]

\* a catch block that reports the document as converted
analysisFailedAsConverted ==
  [isCMYK |-> TRUE, hasRGB |-> FALSE, fullyConverted |-> TRUE, error |-> TRUE]

\* the object validateCMYKPDF returns from its catch block
analysisFailed ==
  [isCMYK |-> FALSE, hasRGB |-> TRUE, fullyConverted |-> FALSE, error |-> TRUE]

noValidation ==
  [isCMYK |-> FALSE, hasRGB |-> FALSE, fullyConverted |-> FALSE, error |-> FALSE]

\* conversionResult = null
nullResult ==
  [present |-> FALSE, buffer |-> "none", fullyConverted |-> FALSE,
   validation |-> noValidation]

\* the finally block of convertToCMYK: both deletions share one try, so a
\* failing unlink of the input file skips the output file
cleanupConvert(fs, inputUnlinkOk, outputUnlinkOk) ==
  IF "input" \in fs /\ ~inputUnlinkOk
  THEN fs
  ELSE IF "output" \in fs /\ ~outputUnlinkOk
       THEN fs \ {"input"}
       ELSE fs \ {"input", "output"}

\* the finally block of validateCMYKPDF
cleanupValidate(fs, unlinkOk) ==
  IF "validate" \in fs /\ ~unlinkOk THEN fs ELSE fs \ {"validate"}

\* const shouldConvertToCMYK = cmyk && isGhostscriptAvailable(), probe ignored
shouldConvertNoProbe(cmykRequested, probe) == cmykRequested

shouldConvert(cmykRequested, probe) == cmykRequested /\ probe

\* the 404 test with the dataset check of line 43 left out
notFoundTemplateOnly(templateExists, datasetExists) == ~templateExists

\* lines 40 and 43: either lookup came back empty
notFound(templateExists, datasetExists) == ~templateExists \/ ~datasetExists

\* exact rational arithmetic for the sizes of lines 103 and 140-143
RECURSIVE GCD(_, _)
GCD(a, b) == IF b = 0 THEN a ELSE GCD(b, a % b)

\* a fraction in lowest terms
reduced(f) ==
  [num |-> f.num \div GCD(f.num, f.den), den |-> f.den \div GCD(f.num, f.den)]

\* the horizontal gap with the divisor cardsPerRow for cardsPerRow + 1
horizontalSpacingPerCard(lay) ==
  [num |-> usableWidth - lay.cardsPerRow * lay.cardWidth * 100,
   den |-> lay.cardsPerRow]

\* lines 140-141, in 1/100 pt: (usableWidth - cardsPerRow * cardWidth) / (cardsPerRow + 1)
horizontalSpacing(lay) ==
  [num |-> usableWidth - lay.cardsPerRow * lay.cardWidth * 100,
   den |-> lay.cardsPerRow + 1]

\* lines 142-143, in 1/100 pt: (usableHeight - cardsPerCol * cardHeight) /
\* (cardsPerCol + 1), the card height being hNum / hDen points
verticalSpacing(lay) ==
  LET exactHeight == reduced([num |-> lay.hNum, den |-> lay.hDen])
  IN [num |-> usableHeight * exactHeight.den - lay.cardsPerCol * exactHeight.num * 100,
      den |-> exactHeight.den * (lay.cardsPerCol + 1)]

noSpacing == [h |-> [num |-> 0, den |-> 1], v |-> [num |-> 0, den |-> 1]]

\* a position that was computed from a NaN row or column
NaNPosition == [num |-> NaN, den |-> 1]

\* line 187, in 1/100 pt:
\* margin + horizontalSpacing + col * (cardWidth + horizontalSpacing)
cellX(lay, sp, col) ==
  IF col = NaN THEN NaNPosition
  ELSE [num |-> margin * sp.h.den + sp.h.num
                  + col * (lay.cardWidth * 100 * sp.h.den + sp.h.num),
        den |-> sp.h.den]

\* the rows stepped by the gap alone, the card height left out
cellYOverlapping(lay, sp, row) ==
  IF row = NaN THEN NaNPosition
  ELSE [num |-> margin * sp.v.den + sp.v.num + row * sp.v.num,
        den |-> sp.v.den]

\* line 189, in 1/100 pt:
\* margin + verticalSpacing + row * (cardHeight + verticalSpacing)
cellY(lay, sp, row) ==
  IF row = NaN THEN NaNPosition
  ELSE [num |-> margin * sp.v.den + sp.v.num
                  + row * (reduced([num |-> lay.hNum, den |-> lay.hDen]).num * 100
                             * (lay.cardsPerCol + 1) + sp.v.num),
        den |-> sp.v.den]

\* a cell moved inwards by the crop mark offset when marks are drawn
cellColumnInset(col, marks) == IF marks /\ col # NaN THEN col + 1 ELSE col

\* lines 183-185: the column of the cell is computed before any mark is
\* drawn and from the card count alone
cellColumn(col, marks) == col

\* lines 150 and 232: the page marks are drawn when a page is started, the
\* border and crop marks of the cell with every card, both only under
\* shouldConvertToCMYK
printMarks(count, lay, should) ==
  [page |-> should /\ jsMod(count, lay.cardsPerPage) = 0, cell |-> should]

noResponse ==
  [kind |-> "none", count |-> 0, cmykCompatible |-> FALSE,
   filename |-> "none", cmykConversion |-> nullResult]

noUpload == [buffer |-> "none", filename |-> "none"]

\* ------------------------------------------ double-precision arithmetic
\* A double is written as its exact rational value num / den together with
\* the rounding error k it carries, counted in units in the last place: the
\* record stands for (num / den) * (1 + k * 2^-53). Products and quotients
\* add and subtract the errors of their operands and add the error e of
\* their own rounding. Equal operations on equal operands give equal results.
exactly(n) == [num |-> n, den |-> 1, k |-> 0]

RECURSIVE isPowerOfTwo(_)
isPowerOfTwo(n) == n = 1 \/ (n > 1 /\ n % 2 = 0 /\ isPowerOfTwo(n \div 2))

\* the rounding errors an operation may add: none when the operands are
\* exact and the result is a binary fraction, one unit either way when the
\* operands are exact and the result is not, anything up to one unit else
Rounding(q, k) ==
  IF k # 0 THEN {-1, 0, 1}
  ELSE IF isPowerOfTwo(reduced(q).den) THEN {0} ELSE {-1, 1}

quotient(a, b) == [num |-> a.num * b.den, den |-> a.den * b.num]
product(a, b) == [num |-> a.num * b.num, den |-> a.den * b.den]

\* a / b and a * b rounded with error e
fdiv(a, b, e) ==
  [num |-> reduced(quotient(a, b)).num, den |-> reduced(quotient(a, b)).den,
   k |-> a.k - b.k + e]
fmul(a, b, e) ==
  [num |-> reduced(product(a, b)).num, den |-> reduced(product(a, b)).den,
   k |-> a.k + b.k + e]

divRounding(a, b) == Rounding(quotient(a, b), a.k - b.k)
mulRounding(a, b) == Rounding(product(a, b), a.k + b.k)

\* a > b: by the exact values, by the rounding errors when those are equal
fgt(a, b) ==
  \/ a.num * b.den > b.num * a.den
  \/ a.num * b.den = b.num * a.den /\ a.k > b.k

\* (a - b) / 2: when the exact values cancel, what is left is the difference
\* of the rounding errors, in units in the last place of a
halfDifference(a, b) ==
  IF a.num * b.den = b.num * a.den
  THEN [num |-> 0, den |-> 1, k |-> a.k - b.k]
  ELSE [num |-> reduced([num |-> a.num * b.den - b.num * a.den,
                         den |-> 2 * a.den * b.den]).num,
        den |-> reduced([num |-> a.num * b.den - b.num * a.den,
                         den |-> 2 * a.den * b.den]).den,
        k |-> 0]

noNumber == [num |-> 0, den |-> 1, k |-> 0]

\* ------------------------------------------- card placement, lines 191-217
\* the branch with the comparison the other way round
fitSizeFlipped(width, height, aspect, eCell, eFit) ==
  IF fgt(fdiv(exactly(width), height, eCell), aspect)
  THEN [width |-> exactly(width),
        height |-> fdiv(exactly(width), aspect, eFit)]
  ELSE [width |-> fmul(height, aspect, eFit),
        height |-> height]

\* lines 200-208: fit by width when the image is wider than the cell, by
\* height otherwise; eCell rounds cardWidth / cardHeight, eFit the quotient
\* or product of the branch taken
fitSize(width, height, aspect, eCell, eFit) ==
  IF fgt(aspect, fdiv(exactly(width), height, eCell))
  THEN [width |-> exactly(width),
        height |-> fdiv(exactly(width), aspect, eFit)]
  ELSE [width |-> fmul(height, aspect, eFit),
        height |-> height]

\* the image drawn at the corner of the cell
centringOffsetNone(cell, final) == noNumber

\* lines 211-212: (cardWidth - finalWidth) / 2, (cardHeight - finalHeight) / 2
centringOffset(cell, final) == halfDifference(cell, final)

\* ------------------------------------------------- temporary file paths
\* part_003 lines 21-23 and 149-152: the paths are made of Date.now() alone
inputPath(timestamp) == [name |-> "input", timestamp |-> timestamp]
outputPath(timestamp) == [name |-> "output-cmyk", timestamp |-> timestamp]
tempPath(timestamp) == [name |-> "validate", timestamp |-> timestamp]

\* the paths one invocation uses
pathsOf(inv) ==
  CASE inv.op = "convert" -> {inputPath(inv.timestamp), outputPath(inv.timestamp)}
    [] inv.op = "validate" -> {tempPath(inv.timestamp)}
    [] OTHER -> {}

\* the directory after writeFileSync(path, data): an existing file is replaced
writeFile(dir, path, data) ==
  {f \in dir : f.path # path} \cup {[path |-> path, data |-> data]}

\* existsSync(path), and whose document the file at path holds
existsFile(dir, path) == \E f \in dir : f.path = path
dataOf(dir, path) == (CHOOSE f \in dir : f.path = path).data

\* if (fs.existsSync(p)) fs.unlinkSync(p), for every path of paths
unlinkFiles(dir, paths) == {f \in dir : f.path \notin paths}

noInvocation == [op |-> "none", pc |-> "idle", timestamp |-> 0, got |-> 0]

\* ------------------------------------------------------ fetchBufferFromUrl
\* the addresses a field value or a Location header may name
FetchUrls == {"http://host/a", "http://host/b", "https://cdn/c"}
noUrl == "none"
\* what a server does with a GET: answer 200 with a body, answer 3xx with a
\* Location, answer 4xx/5xx, fail the socket, or accept and never answer
Responses ==
  [kind : {"ok", "status4xx", "socketError", "silent"}, location : {noUrl}]
    \cup [kind : {"redirect"}, location : FetchUrls]

\* ------------------------------------------------------------ the editor
\* the header rows of the sheets a user may upload
Sheets == {<<"Name">>, <<"Name", "Photo">>}
MaxHeaders == 2
defaultX == 20
movedX == 60

noFields == <<>>
noFieldMapping == {}
noSheet == <<>>

\* generateFieldsFromHeaders, App.jsx lines 60-75: one field per header;
\* crypto.randomUUID() gives ids no earlier upload has given
generateFieldsFromHeaders(headers, upload) ==
  [idx \in 1..Len(headers) |->
     [id |-> upload * MaxHeaders + idx, name |-> headers[idx], x |-> defaultX]]

\* Object.fromEntries(newFields.map(f => [f.id, f.name])), line 104
mappingOfFields(newFields) ==
  {[id |-> newFields[k].id, column |-> newFields[k].name] : k \in 1..Len(newFields)}

\* the body of saveLayout(template._id, { fields, mapping }), lines 128, 147
layoutPayload(flds, map) ==
  [hasFields |-> TRUE, fields |-> flds, hasMapping |-> TRUE, mapping |-> map]

\* the body of saveLayout(template._id, { fields }), line 176: mapping is
\* undefined and JSON leaves it out
fieldsPayload(flds, map) ==
  [hasFields |-> TRUE, fields |-> flds, hasMapping |-> FALSE, mapping |-> noFieldMapping]

\* PUT /:id/layout, templates.js lines 97-112: $set of the parts in the body
putLayout(t, body) ==
  [fields |-> IF body.hasFields THEN body.fields ELSE t.fields,
   mapping |-> IF body.hasMapping THEN body.mapping ELSE t.mapping]

\* mappingChanged, App.jsx lines 53-58
mappingChanged(e, t) == e.mapping # t.mapping

noTemplate == [fields |-> noFields, mapping |-> noFieldMapping]
noEditor ==
  [hasTemplate |-> FALSE, fields |-> noFields, mapping |-> noFieldMapping,
   headers |-> noSheet, hasDataset |-> FALSE, fieldsDirty |-> FALSE]

VARIABLES
  remote,               \* what each address answers to a GET
  fetchUrl,             \* the address fetchBufferFromUrl is requesting
  fetchState,           \* the promise of the outermost fetchBufferFromUrl
  pending,              \* nested fetchBufferFromUrl calls not settled, up to MaxPending
  editor,               \* the React state of App: template, fields, mapping, ...
  savedTemplate,        \* fields and mapping of the template document
  epc,                  \* position of the editor's running handler
  uploads,              \* sheets uploaded so far
  stored,               \* a template document is stored
  ppc,                  \* position of the placement of one card
  templateAspectRatio,  \* line 83
  cardWidth, cardHeight,     \* the cell: bestLayout.cardWidth, .cardHeight
  imageInfo,            \* sharp(buffer).metadata() of the card, line 196
  imageAspectRatio,     \* line 197
  finalWidth, finalHeight,   \* lines 200-208
  offsetX, offsetY,     \* lines 211-212
  clock,                \* Date.now(), in milliseconds
  tempDir,              \* the files of the shared temp directory
  invocation,           \* per server process: the conversion or validation it runs
  route,                \* "batch" or "preview": the handler that runs
  lookup,               \* what the stores hold: [template, dataset] found or not
  renderCalls,          \* renderOne calls the handler has made
  renderError,          \* a renderOne call of the handler rejected
  spacing,              \* horizontalSpacing and verticalSpacing, lines 140-143
  imageMeta,            \* template.imageMeta: [width, height] in pixels
  nRows,                \* dataset.rows.length
  range,                \* req.body.range: [start, end]
  cmyk,                 \* req.body.cmyk
  probe,                \* what isGhostscriptAvailable() answered at line 52
  pc,                   \* position of the batch handler
  start, end,           \* the loop bounds of lines 46-47
  shouldConvertToCMYK,
  layout,               \* the destructured layout of line 124
  i, cardCount,         \* loop index and cards placed so far
  pages,                \* pages of the PDF document
  placed,               \* the doc.image calls, in order
  pdfBuffer,            \* "RGB": the PDFKit bytes; "CMYK"/"EMPTY": converter output
  finalFileName,        \* "batch.pdf" or "batch-cmyk.pdf"
  tmpFiles,             \* temporary files that exist on disk
  outputContent,        \* what the converter wrote to its output file
  cmykBuffer,           \* what convertToCMYK read back
  convError,            \* convertToCMYK is on its throwing path
  valError,             \* validateCMYKPDF is on its catch path
  gsRuns,               \* gs subprocesses started (probe excluded)
  validation,           \* the object validateCMYKPDF returned
  conversionResult,
  uploaded,             \* what uploadBuffer stored
  response,             \* what the request was answered with
  fields,               \* template.fields of the record being rendered
  mapping,              \* template.mapping: field id -> column name
  record,               \* the data record: column name -> value
  rpc,                  \* position of renderOne
  fieldIndex,           \* the field the for-of loop is at
  composites,           \* the layers pushed so far
  loadCalls,            \* field ids loadImageBuffer was called for
  loadLog,              \* the image failures of this render, in field order
  consulted,            \* per image load, the sources read and what each gave
  baseImage,            \* pixel size of the stored base image
  meta,                 \* baseImg.metadata() as renderOne read it
  card                  \* the { width, height } renderOne returned

vars == <<remote, fetchUrl, fetchState, pending, editor, savedTemplate, epc, uploads,
          stored, ppc, templateAspectRatio, cardWidth, cardHeight, imageInfo,
          imageAspectRatio, finalWidth, finalHeight, offsetX, offsetY,
          clock, tempDir, invocation,
          fields, mapping, record, rpc, fieldIndex, composites, loadCalls, loadLog, consulted,
          baseImage, meta, card, route, lookup, renderCalls, renderError, spacing,
          imageMeta, nRows, range, cmyk, probe, pc, start, end, shouldConvertToCMYK,
          layout, i, cardCount, pages, placed, pdfBuffer, finalFileName,
          tmpFiles, outputContent, cmykBuffer, convError, valError, gsRuns,
          validation, conversionResult, uploaded, response>>

renderVars == <<fields, mapping, record, rpc, fieldIndex, composites, loadCalls, loadLog, consulted,
               baseImage, meta, card>>
storeVars == <<stored>>
placeVars == <<ppc, templateAspectRatio, cardWidth, cardHeight, imageInfo,
              imageAspectRatio, finalWidth, finalHeight, offsetX, offsetY>>
concVars == <<clock, tempDir, invocation>>
fetchVars == <<remote, fetchUrl, fetchState, pending>>
editorVars == <<editor, savedTemplate, epc, uploads>>
clientVars == <<fetchVars, editorVars>>
\* everything renderOne leaves alone besides the handlers' variables
nonRenderVars == <<storeVars, placeVars, concVars, clientVars>>
\* everything the two request handlers of generate.js leave alone
nonBatchVars == <<renderVars, nonRenderVars>>
requestVars == <<route, imageMeta, nRows, range, cmyk>>
loopVars == <<probe, start, end, shouldConvertToCMYK, layout, spacing, i, cardCount,
              pages, placed>>
convVars == <<tmpFiles, outputContent, cmykBuffer, convError, valError, gsRuns,
              validation, conversionResult>>
outVars == <<pdfBuffer, finalFileName, uploaded, response>>
batchVars == <<requestVars, lookup, renderCalls, renderError, pc, loopVars, convVars, outVars>>

Procs == 1..MaxProcs

Dims == {undefined} \cup {100 * k : k \in 1..MaxDim}
RangeValues == {undefined} \cup (0..(MaxRows + 1))

\* the batch handler before it has done anything
noSize == [width |-> undefined, height |-> undefined]

batchFresh ==
  /\ lookup = [template |-> FALSE, dataset |-> FALSE]
  /\ renderCalls = 0
  /\ renderError = FALSE
  /\ spacing = noSpacing
  /\ probe = "notCalled"
  /\ start = 0 /\ end = 0
  /\ shouldConvertToCMYK = FALSE
  /\ layout = noLayout
  /\ i = 0 /\ cardCount = 0
  /\ pages = 0
  /\ placed = <<>>
  /\ pdfBuffer = "none"
  /\ finalFileName = "none"
  /\ tmpFiles = {}
  /\ outputContent = "none"
  /\ cmykBuffer = "none"
  /\ convError = FALSE /\ valError = FALSE
  /\ gsRuns = 0
  /\ validation = noValidation
  /\ conversionResult = nullResult
  /\ uploaded = noUpload
  /\ response = noResponse

\* no render in progress
renderIdle ==
  /\ fields = <<>>
  /\ mapping = <<>>
  /\ record = [c \in Columns |-> undefinedValue]
  /\ rpc = "idle"
  /\ fieldIndex = 1
  /\ composites = <<>>
  /\ loadCalls = {}
  /\ loadLog = <<>>
  /\ consulted = <<>>
  /\ baseImage = noSize
  /\ meta = noSize
  /\ card = noSize

\* no template stored through the templates routes
storeIdle == stored = FALSE

\* no card being placed
placeIdle ==
  /\ ppc = "idle"
  /\ templateAspectRatio = noNumber
  /\ cardWidth = 0
  /\ cardHeight = noNumber
  /\ imageInfo = noSize
  /\ imageAspectRatio = noNumber
  /\ finalWidth = noNumber /\ finalHeight = noNumber
  /\ offsetX = noNumber /\ offsetY = noNumber

\* no fetch in progress and no editor open
fetchIdle ==
  /\ remote = [u \in FetchUrls |-> [kind |-> "ok", location |-> noUrl]]
  /\ fetchUrl = noUrl
  /\ fetchState = "idle"
  /\ pending = 0
editorIdle ==
  /\ editor = noEditor
  /\ savedTemplate = noTemplate
  /\ epc = "idle"
  /\ uploads = 0
clientIdle == fetchIdle /\ editorIdle

\* no conversion running in any process
concIdle ==
  /\ clock = 0
  /\ tempDir = {}
  /\ invocation = [p \in Procs |-> noInvocation]

\* a request that carries no batch parameters
noBatchRequest ==
  /\ imageMeta = noSize
  /\ nRows = 0
  /\ range = [start |-> undefined, end |-> undefined]
  /\ cmyk = FALSE

Init ==
  /\ \/ /\ route = "batch"
        /\ imageMeta \in [width : Dims, height : Dims]
        /\ nRows \in 0..MaxRows
        /\ range \in [start : RangeValues, end : RangeValues]
        /\ cmyk \in BOOLEAN
     \/ /\ route = "preview"
        /\ noBatchRequest
  /\ pc = "lookup"
  /\ batchFresh
  /\ renderIdle
  /\ storeIdle
  /\ placeIdle
  /\ concIdle
  /\ clientIdle

\* ------------------------------------------------ router.post("/batch")
\* a lookup finds nothing: res.status(404)
NotFound ==
  /\ pc = "lookup"
  /\ route = "batch"
  /\ \E templateExists \in BOOLEAN, datasetExists \in BOOLEAN :
       /\ notFound(templateExists, datasetExists)
       /\ lookup' = [template |-> templateExists, dataset |-> datasetExists]
  /\ pc' = "done"
  /\ response' = [noResponse EXCEPT !.kind = "404"]
  /\ UNCHANGED <<nonBatchVars, requestVars, renderCalls, renderError, loopVars, convVars, pdfBuffer,
                 finalFileName, uploaded>>

\* lines 45-145: range, probe, new PDFDocument, layout search
Prepare ==
  /\ pc = "lookup"
  /\ route = "batch"
  /\ \E templateExists \in BOOLEAN, datasetExists \in BOOLEAN :
       /\ ~notFound(templateExists, datasetExists)
       /\ lookup' = [template |-> templateExists, dataset |-> datasetExists]
  /\ \E available \in BOOLEAN :
       /\ probe' = IF ~cmyk THEN "notCalled"
                   ELSE IF available THEN "available" ELSE "absent"
       /\ shouldConvertToCMYK' = shouldConvert(cmyk, available)
  /\ start' = IF range.start = undefined THEN 0 ELSE range.start
  /\ end' = MinOf(IF range.end = undefined THEN nRows ELSE range.end, nRows)
  /\ layout' = planLayout(templateWidthOf(imageMeta.width),
                          templateHeightOf(imageMeta.height))
  /\ spacing' = [h |-> horizontalSpacing(layout'), v |-> verticalSpacing(layout')]
  /\ i' = IF range.start = undefined THEN 0 ELSE range.start
  /\ cardCount' = 0
  /\ pages' = 1
  /\ pc' = "loop"
  /\ UNCHANGED <<nonBatchVars, requestVars, renderCalls, renderError, placed, convVars, outVars>>

\* the cell of the page that card number cardCount is drawn in
cellOf(count, lay) ==
  LET cardIndex == jsMod(count, lay.cardsPerPage)
  IN [cardIndex |-> cardIndex,
      row |-> jsFloorDiv(cardIndex, lay.cardsPerRow),
      col |-> jsMod(cardIndex, lay.cardsPerRow)]

\* one iteration of the row loop, lines 169-314
ProcessRow ==
  /\ pc = "loop"
  /\ i < end
  /\ LET newPages == IF startsNewPage(cardCount, layout.cardsPerPage)
                     THEN pages + 1 ELSE pages
         cell == cellOf(cardCount, layout)
     IN /\ pages' = newPages
        /\ placed' = Append(placed,
               [record |-> i, page |-> newPages - 1,
                cardIndex |-> cell.cardIndex,
                row |-> cell.row,
                col |-> cellColumn(cell.col, shouldConvertToCMYK),
                x |-> cellX(layout, spacing,
                            cellColumn(cell.col, shouldConvertToCMYK)),
                y |-> cellY(layout, spacing, cell.row),
                marks |-> printMarks(cardCount, layout, shouldConvertToCMYK)])
  /\ cardCount' = cardCount + 1
  /\ i' = i + 1
  /\ renderCalls' = renderCalls + 1
  /\ UNCHANGED <<nonBatchVars, requestVars, lookup, renderError, pc, probe, start, end,
                 shouldConvertToCMYK, layout, spacing, convVars, outVars>>

\* a loop that catches the rejection and goes on with the next record
RenderFailsSkipsRow ==
  /\ pc = "loop"
  /\ i < end
  /\ renderCalls' = renderCalls + 1
  /\ renderError' = TRUE
  /\ i' = i + 1
  /\ UNCHANGED <<nonBatchVars, requestVars, lookup, pc, probe, start, end,
                 shouldConvertToCMYK, layout, spacing, cardCount, pages, placed,
                 convVars, outVars>>

\* renderOne rejects (line 171): the outer catch hands the error to next
RenderFails ==
  /\ pc = "loop"
  /\ i < end
  /\ renderCalls' = renderCalls + 1
  /\ renderError' = TRUE
  /\ pc' = "done"
  /\ response' = [noResponse EXCEPT !.kind = "error"]
  /\ UNCHANGED <<nonBatchVars, requestVars, lookup, loopVars, convVars, pdfBuffer,
                 finalFileName, uploaded>>

\* doc.end() and the start of the "end" handler, lines 316-326
DocEnd ==
  /\ pc = "loop"
  /\ i >= end
  /\ pdfBuffer' = "RGB"
  /\ finalFileName' = "batch.pdf"
  /\ pc' = IF shouldConvertToCMYK THEN "convWrite" ELSE "upload"
  /\ UNCHANGED <<nonBatchVars, requestVars, lookup, renderCalls, renderError, loopVars, convVars, uploaded, response>>

\* ------------------------------------------------------- convertToCMYK
\* fs.writeFileSync(inputPath, rgbPdfBuffer)
ConvWriteInput ==
  /\ pc = "convWrite"
  /\ \/ /\ tmpFiles' = tmpFiles \cup {"input"}
        /\ pc' = "convExec"
        /\ UNCHANGED convError
     \/ /\ \E partial \in BOOLEAN :
             tmpFiles' = IF partial THEN tmpFiles \cup {"input"} ELSE tmpFiles
        /\ convError' = TRUE
        /\ pc' = "convCleanup"
  /\ UNCHANGED <<nonBatchVars, requestVars, lookup, renderCalls, renderError, loopVars, outVars, outputContent, cmykBuffer,
                 valError, gsRuns, validation, conversionResult>>

\* execSync(gsCommand, { stdio: "pipe" }): no timeout option
ConvExec ==
  /\ pc = "convExec"
  /\ gsRuns' = gsRuns + 1
  /\ \/ \E content \in {"CMYK", "EMPTY"} :
          /\ tmpFiles' = tmpFiles \cup {"output"}
          /\ outputContent' = content
          /\ pc' = "convRead"
          /\ UNCHANGED convError
     \/ /\ pc' = "convRead"
        /\ UNCHANGED <<tmpFiles, outputContent, convError>>
     \/ /\ \E partial \in BOOLEAN :
             tmpFiles' = IF partial THEN tmpFiles \cup {"output"} ELSE tmpFiles
        /\ convError' = TRUE
        /\ pc' = "convCleanup"
        /\ UNCHANGED outputContent
     \/ /\ pc' = "convHung"
        /\ UNCHANGED <<tmpFiles, outputContent, convError>>
  /\ UNCHANGED <<nonBatchVars, requestVars, lookup, renderCalls, renderError, loopVars, outVars, cmykBuffer, valError,
                 validation, conversionResult>>

\* fs.readFileSync(outputPath)
ConvRead ==
  /\ pc = "convRead"
  /\ \/ /\ "output" \in tmpFiles
        /\ cmykBuffer' = outputContent
        /\ UNCHANGED convError
     \/ /\ convError' = TRUE
        /\ UNCHANGED cmykBuffer
  /\ pc' = "convCleanup"
  /\ UNCHANGED <<nonBatchVars, requestVars, lookup, renderCalls, renderError, loopVars, outVars, tmpFiles, outputContent,
                 valError, gsRuns, validation, conversionResult>>

\* the finally block, then either the rethrow (caught at generate.js:357) or
\* the return into convertToCMYKWithValidation
ConvCleanup ==
  /\ pc = "convCleanup"
  /\ \E inputUnlinkOk \in BOOLEAN, outputUnlinkOk \in BOOLEAN :
       tmpFiles' = cleanupConvert(tmpFiles, inputUnlinkOk, outputUnlinkOk)
  /\ pc' = IF convError THEN "upload" ELSE "valWrite"
  /\ UNCHANGED <<nonBatchVars, requestVars, lookup, renderCalls, renderError, loopVars, outVars, outputContent, cmykBuffer,
                 convError, valError, gsRuns, validation, conversionResult>>

\* ----------------------------------------------------- validateCMYKPDF
\* fs.writeFileSync(tempPath, pdfBuffer)
ValWrite ==
  /\ pc = "valWrite"
  /\ \/ /\ tmpFiles' = tmpFiles \cup {"validate"}
        /\ pc' = "valExec"
        /\ UNCHANGED valError
     \/ /\ \E partial \in BOOLEAN :
             tmpFiles' = IF partial THEN tmpFiles \cup {"validate"} ELSE tmpFiles
        /\ valError' = TRUE
        /\ pc' = "valCleanup"
  /\ UNCHANGED <<nonBatchVars, requestVars, lookup, renderCalls, renderError, loopVars, outVars, outputContent, cmykBuffer,
                 convError, gsRuns, validation, conversionResult>>

\* execSync(analysisCommand, ...): no timeout option
ValExec ==
  /\ pc = "valExec"
  /\ gsRuns' = gsRuns + 1
  /\ \/ /\ \E output \in SUBSET Tokens : validation' = analysisResult(output)
        /\ pc' = "valCleanup"
        /\ UNCHANGED valError
     \/ /\ valError' = TRUE
        /\ pc' = "valCleanup"
        /\ UNCHANGED validation
     \/ /\ pc' = "valHung"
        /\ UNCHANGED <<validation, valError>>
  /\ UNCHANGED <<nonBatchVars, requestVars, lookup, renderCalls, renderError, loopVars, outVars, tmpFiles, outputContent,
                 cmykBuffer, convError, conversionResult>>

\* the finally block of validateCMYKPDF, the result object of
\* convertToCMYKWithValidation, and generate.js:336-337
ValCleanup ==
  /\ pc = "valCleanup"
  /\ \E unlinkOk \in BOOLEAN : tmpFiles' = cleanupValidate(tmpFiles, unlinkOk)
  /\ LET v == IF valError THEN analysisFailed ELSE validation
     IN /\ validation' = v
        /\ conversionResult' = [present |-> TRUE, buffer |-> cmykBuffer,
                                fullyConverted |-> v.fullyConverted,
                                validation |-> v]
  /\ pdfBuffer' = cmykBuffer
  /\ finalFileName' = "batch-cmyk.pdf"
  /\ pc' = "upload"
  /\ UNCHANGED <<nonBatchVars, requestVars, lookup, renderCalls, renderError, loopVars, outputContent, cmykBuffer, convError,
                 valError, gsRuns, uploaded, response>>

\* ------------------------------------------- uploadBuffer and res.json
Upload ==
  /\ pc = "upload"
  /\ uploaded' = [buffer |-> pdfBuffer, filename |-> finalFileName]
  /\ response' = [kind |-> "json", count |-> end - start,
                  cmykCompatible |-> shouldConvertToCMYK,
                  filename |-> finalFileName,
                  cmykConversion |-> IF convError THEN nullResult
                                     ELSE conversionResult]
  /\ pc' = "done"
  /\ UNCHANGED <<nonBatchVars, requestVars, lookup, renderCalls, renderError, loopVars, convVars, pdfBuffer, finalFileName>>

\* uploadBuffer rejects: next(uploadErr)
UploadFails ==
  /\ pc = "upload"
  /\ response' = [noResponse EXCEPT !.kind = "error"]
  /\ pc' = "done"
  /\ UNCHANGED <<nonBatchVars, requestVars, lookup, renderCalls, renderError, loopVars, convVars, pdfBuffer, finalFileName, uploaded>>

\* ---------------------------------------------- router.post("/preview")
\* line 21: the template lookup came back empty
PreviewNotFound ==
  /\ pc = "lookup"
  /\ route = "preview"
  /\ lookup' = [template |-> FALSE, dataset |-> FALSE]
  /\ pc' = "done"
  /\ response' = [noResponse EXCEPT !.kind = "404"]
  /\ UNCHANGED <<nonBatchVars, requestVars, renderCalls, renderError, loopVars, convVars, pdfBuffer,
                 finalFileName, uploaded>>

\* lines 23-29: the record is rendered and returned as a data URL
PreviewRender ==
  /\ pc = "lookup"
  /\ route = "preview"
  /\ lookup' = [template |-> TRUE, dataset |-> FALSE]
  /\ renderCalls' = renderCalls + 1
  /\ pc' = "done"
  /\ response' = [noResponse EXCEPT !.kind = "preview"]
  /\ UNCHANGED <<nonBatchVars, requestVars, renderError, loopVars, convVars, pdfBuffer,
                 finalFileName, uploaded>>

\* renderOne rejects: the catch of line 30 hands the error to next
PreviewRenderFails ==
  /\ pc = "lookup"
  /\ route = "preview"
  /\ lookup' = [template |-> TRUE, dataset |-> FALSE]
  /\ renderCalls' = renderCalls + 1
  /\ renderError' = TRUE
  /\ pc' = "done"
  /\ response' = [noResponse EXCEPT !.kind = "error"]
  /\ UNCHANGED <<nonBatchVars, requestVars, loopVars, convVars, pdfBuffer,
                 finalFileName, uploaded>>

\* ------------------------------------------------------------- renderOne
\* lines 99-105: the base image is read and its metadata taken
RenderStart ==
  /\ rpc = "start"
  /\ meta' = baseImage
  /\ rpc' = "fields"
  /\ UNCHANGED <<fields, mapping, record, fieldIndex, composites, loadCalls, loadLog, consulted,
                 baseImage, card, batchVars, nonRenderVars>>

\* reading the base image rejects: renderOne throws
RenderBaseFails ==
  /\ rpc = "start"
  /\ rpc' = "failed"
  /\ UNCHANGED <<fields, mapping, record, fieldIndex, composites, loadCalls, loadLog, consulted,
                 baseImage, meta, card, batchVars, nonRenderVars>>

\* one pass of the for-of loop, lines 106-136
RenderField ==
  /\ rpc = "fields"
  /\ fieldIndex <= Len(fields)
  /\ LET k == fieldOrder(fields)[fieldIndex]
         type == fields[k].type
         sourceValue == sourceValueOf(mapping, record, k)
         tries == triesImage(type, sourceValue)
     IN \E gridfsRead \in outcomesOf(tries /\ isFilesRef(sourceValue)),
           httpGet \in outcomesOf(tries /\ isHttpUrl(sourceValue)),
           fileRead \in outcomesOf(tries /\ ~isHttpUrl(sourceValue)
                                          /\ ~isDataUri(sourceValue)),
           resized \in (IF tries THEN BOOLEAN ELSE {FALSE}) :
          LET load == loadImageBuffer(sourceValue, gridfsRead, httpGet, fileRead)
          IN /\ composites' = composites \o
                  layersOf(k, type, sourceValue, load.buf, resized)
             /\ loadCalls' = IF triesImage(type, sourceValue)
                             THEN loadCalls \cup {k} ELSE loadCalls
             /\ loadLog' = IF triesImage(type, sourceValue)
                               /\ imageFailure(load, resized) # "none"
                           THEN Append(loadLog, [field |-> k,
                                                 failure |-> imageFailure(load, resized)])
                           ELSE loadLog
             /\ consulted' = IF triesImage(type, sourceValue)
                             THEN Append(consulted,
                                    [field |-> k, value |-> sourceValue, buf |-> load.buf,
                                     reads |-> sourcesConsulted(sourceValue, gridfsRead,
                                                                httpGet, fileRead)])
                             ELSE consulted
  /\ fieldIndex' = fieldIndex + 1
  /\ UNCHANGED <<fields, mapping, record, rpc, baseImage, meta, card, batchVars,
                 nonRenderVars>>

\* line 138: composite, encode, return; sharp rejects the composite when a
\* text layer's SVG does not parse, and renderOne throws
RenderFinish ==
  /\ rpc = "fields"
  /\ fieldIndex > Len(fields)
  /\ IF \A n \in 1..Len(composites) :
          composites[n].kind = "text" => svgWellFormed(composites[n].text)
     THEN /\ card' = cardSize(meta, fields)
          /\ rpc' = "done"
     ELSE /\ rpc' = "failed"
          /\ UNCHANGED card
  /\ UNCHANGED <<fields, mapping, record, fieldIndex, composites, loadCalls, loadLog, consulted,
                 baseImage, meta, batchVars, nonRenderVars>>

RenderInit ==
  /\ \E n \in 0..MaxFields :
       /\ fields \in [1..n -> DefaultFieldRecords]
       /\ mapping \in [1..n -> MappingValues]
  /\ record \in [Columns -> Values \cup {undefinedValue}]
  /\ rpc = "start"
  /\ fieldIndex = 1
  /\ composites = <<>>
  /\ loadCalls = {}
  /\ loadLog = <<>>
  /\ consulted = <<>>
  /\ baseImage = [width |-> defaultTemplateWidth, height |-> defaultTemplateHeight]
  /\ meta = noSize
  /\ card = noSize
  /\ route = "none"
  /\ noBatchRequest
  /\ pc = "idle"
  /\ batchFresh
  /\ storeIdle
  /\ placeIdle
  /\ concIdle
  /\ clientIdle

RenderNext ==
  \/ RenderStart
  \/ RenderBaseFails
  \/ RenderField
  \/ RenderFinish

RenderSpec == RenderInit /\ [][RenderNext]_vars

\* renderOne on templates whose fields carry stacking indexes, for records
\* of one text and one image file name
StackedValues == {"Alice", "photo.png"}
StackedInit ==
  /\ \E n \in 0..MaxFields :
       /\ fields \in [1..n -> FieldRecords]
       /\ mapping \in [1..n -> MappingValues]
  /\ record \in [Columns -> StackedValues]
  /\ rpc = "start"
  /\ fieldIndex = 1
  /\ composites = <<>>
  /\ loadCalls = {}
  /\ loadLog = <<>>
  /\ consulted = <<>>
  /\ baseImage = [width |-> defaultTemplateWidth, height |-> defaultTemplateHeight]
  /\ meta = noSize
  /\ card = noSize
  /\ route = "none"
  /\ noBatchRequest
  /\ pc = "idle"
  /\ batchFresh
  /\ storeIdle
  /\ placeIdle
  /\ concIdle
  /\ clientIdle

StackedSpec == StackedInit /\ [][RenderNext]_vars

\* ------------------------------------------------- routes/templates.js
\* everything of the request handlers that the templates routes leave alone
handlerVars == <<route, nRows, range, cmyk, lookup, renderCalls, renderError, pc,
                loopVars, convVars, outVars>>
renderLocals == <<rpc, fieldIndex, composites, loadCalls, loadLog, consulted, meta, card>>

ImageSizes == {[width |-> 200, height |-> 100], [width |-> 100, height |-> 300]}
FieldLists == UNION {[1..n -> DefaultFieldRecords] : n \in 0..MaxFields}
Mappings == [1..MaxFields -> MappingValues]
noMapping == [k \in 1..MaxFields |-> undefinedValue]
noRecord == [c \in Columns |-> undefinedValue]

\* POST /, lines 15-43: the upload is measured and the same bytes are stored
TemplateUpload ==
  /\ ~stored
  /\ \E size \in ImageSizes :
       /\ baseImage' = size
       /\ imageMeta' = [width |-> size.width, height |-> size.height]
  /\ fields' = <<>>
  /\ mapping' = noMapping
  /\ stored' = TRUE
  /\ UNCHANGED <<record, renderLocals, handlerVars, placeVars, concVars, clientVars>>

\* PUT /:id/fields, lines 67-79: $set names the fields alone
PutFields ==
  /\ stored
  /\ rpc = "idle"
  /\ \E update \in FieldLists : fields' = update
  /\ UNCHANGED <<mapping, record, baseImage, imageMeta, stored, renderLocals, handlerVars,
                 placeVars, concVars, clientVars>>

\* PUT /:id/mapping, lines 82-94
PutMapping ==
  /\ stored
  /\ rpc = "idle"
  /\ \E update \in Mappings : mapping' = update
  /\ UNCHANGED <<fields, record, baseImage, imageMeta, stored, renderLocals, handlerVars,
                 placeVars, concVars, clientVars>>

\* PUT /:id/layout, lines 97-112: fields and mapping in one request
PutLayout ==
  /\ stored
  /\ rpc = "idle"
  /\ \E fieldsUpdate \in FieldLists, mappingUpdate \in Mappings :
       /\ fields' = fieldsUpdate
       /\ mapping' = mappingUpdate
  /\ UNCHANGED <<record, baseImage, imageMeta, stored, renderLocals, handlerVars, placeVars,
                 concVars, clientVars>>

\* a handler of generate.js calls renderOne({ template, record })
BeginRender ==
  /\ stored
  /\ rpc = "idle"
  /\ record' \in [Columns -> Values \cup {undefinedValue}]
  /\ rpc' = "start"
  /\ UNCHANGED <<fields, mapping, fieldIndex, composites, loadCalls, loadLog, consulted,
                 baseImage, meta, card, imageMeta, stored, handlerVars, placeVars,
                 concVars, clientVars>>

\* renderOne has returned or thrown: its locals are gone, the caller keeps
\* the card it got
EndRender ==
  /\ rpc \in {"done", "failed"}
  /\ rpc' = "idle"
  /\ record' = noRecord
  /\ fieldIndex' = 1
  /\ composites' = <<>>
  /\ loadCalls' = {}
  /\ loadLog' = <<>>
  /\ consulted' = <<>>
  /\ meta' = noSize
  /\ UNCHANGED <<fields, mapping, baseImage, card, imageMeta, stored, handlerVars,
                 placeVars, concVars, clientVars>>

TemplateInit ==
  /\ storeIdle
  /\ renderIdle
  /\ route = "none"
  /\ noBatchRequest
  /\ pc = "idle"
  /\ batchFresh
  /\ placeIdle
  /\ concIdle
  /\ clientIdle

TemplateNext ==
  \/ TemplateUpload
  \/ PutFields
  \/ PutMapping
  \/ PutLayout
  \/ BeginRender
  \/ RenderStart
  \/ RenderBaseFails
  \/ RenderField
  \/ RenderFinish
  \/ EndRender

TemplateSpec == TemplateInit /\ [][TemplateNext]_vars

\* ------------------------------------- placement of one card, lines 81-217
\* lines 81-83 and 103 (or 126): the cell of the layout the planner chose
PlaceLayout ==
  /\ ppc = "layout"
  /\ LET tw == templateWidthOf(imageMeta.width)
         th == templateHeightOf(imageMeta.height)
     IN \E eAspect \in divRounding(exactly(tw), exactly(th)) :
          LET aspect == fdiv(exactly(tw), exactly(th), eAspect)
              width == planLayout(tw, th).cardWidth
          IN \E eHeight \in divRounding(exactly(width), aspect) :
               /\ templateAspectRatio' = aspect
               /\ cardWidth' = width
               /\ cardHeight' = fdiv(exactly(width), aspect, eHeight)
  /\ ppc' = "measure"
  /\ UNCHANGED <<imageInfo, imageAspectRatio, finalWidth, finalHeight, offsetX,
                 offsetY, batchVars, renderVars, storeVars, concVars, clientVars>>

\* lines 196-197: the size of the rendered card and its aspect ratio; the
\* same quotient as the template's rounds to the same double
PlaceMeasure ==
  /\ ppc = "measure"
  /\ \E w \in Dims \ {undefined}, h \in Dims \ {undefined} :
       /\ imageInfo' = [width |-> w, height |-> h]
       /\ IF w * templateAspectRatio.den = h * templateAspectRatio.num
          THEN imageAspectRatio' = templateAspectRatio
          ELSE \E e \in divRounding(exactly(w), exactly(h)) :
                 imageAspectRatio' = fdiv(exactly(w), exactly(h), e)
  /\ ppc' = "fit"
  /\ UNCHANGED <<templateAspectRatio, cardWidth, cardHeight, finalWidth,
                 finalHeight, offsetX, offsetY, batchVars, renderVars, storeVars,
                 concVars, clientVars>>

\* sharp(buffer).metadata() rejects: the catch of line 218 lets pdfkit fit
\* the image, the secondary placement path
PlaceMeasureFails ==
  /\ ppc = "measure"
  /\ ppc' = "fallback"
  /\ UNCHANGED <<templateAspectRatio, cardWidth, cardHeight, imageInfo,
                 imageAspectRatio, finalWidth, finalHeight, offsetX, offsetY,
                 batchVars, renderVars, storeVars, concVars, clientVars>>

\* lines 200-208; cardWidth / imageAspectRatio is the operation that gave
\* cardHeight when the image has the template's aspect ratio
PlaceFit ==
  /\ ppc = "fit"
  /\ \E eCell \in divRounding(exactly(cardWidth), cardHeight), eFit \in {-1, 0, 1} :
       LET size == fitSize(cardWidth, cardHeight, imageAspectRatio, eCell, eFit)
       IN /\ IF fgt(imageAspectRatio, fdiv(exactly(cardWidth), cardHeight, eCell))
             THEN IF imageAspectRatio = templateAspectRatio
                  THEN size.height = cardHeight
                  ELSE eFit \in divRounding(exactly(cardWidth), imageAspectRatio)
             ELSE eFit \in mulRounding(cardHeight, imageAspectRatio)
          /\ finalWidth' = size.width
          /\ finalHeight' = size.height
  /\ ppc' = "center"
  /\ UNCHANGED <<templateAspectRatio, cardWidth, cardHeight, imageInfo,
                 imageAspectRatio, offsetX, offsetY, batchVars, renderVars,
                 storeVars, concVars, clientVars>>

\* lines 211-216: the offsets, then doc.image
PlaceCenter ==
  /\ ppc = "center"
  /\ offsetX' = centringOffset(exactly(cardWidth), finalWidth)
  /\ offsetY' = centringOffset(cardHeight, finalHeight)
  /\ ppc' = "placed"
  /\ UNCHANGED <<templateAspectRatio, cardWidth, cardHeight, imageInfo,
                 imageAspectRatio, finalWidth, finalHeight, batchVars, renderVars,
                 storeVars, concVars, clientVars>>

PlacementInit ==
  /\ imageMeta \in [width : Dims, height : Dims]
  /\ nRows = 0
  /\ range = [start |-> undefined, end |-> undefined]
  /\ cmyk = FALSE
  /\ route = "batch"
  /\ pc = "idle"
  /\ batchFresh
  /\ renderIdle
  /\ storeIdle
  /\ concIdle
  /\ clientIdle
  /\ ppc = "layout"
  /\ templateAspectRatio = noNumber
  /\ cardWidth = 0
  /\ cardHeight = noNumber
  /\ imageInfo = noSize
  /\ imageAspectRatio = noNumber
  /\ finalWidth = noNumber /\ finalHeight = noNumber
  /\ offsetX = noNumber /\ offsetY = noNumber

PlacementNext ==
  \/ PlaceLayout
  \/ PlaceMeasure
  \/ PlaceMeasureFails
  \/ PlaceFit
  \/ PlaceCenter

PlacementSpec == PlacementInit /\ [][PlacementNext]_vars

\* ------------------------- convertToCMYK and validateCMYKPDF side by side
\* Each process of Procs is one server process. The bodies of both functions
\* are synchronous, so one process runs one invocation at a time; processes
\* share the clock and the temp directory.
\* part_003 lines 21-23 and 149-152: the paths are fixed from Date.now()
ConcStart(p) ==
  /\ invocation[p].op = "none"
  /\ \E op \in {"convert", "validate"} :
       invocation' = [invocation EXCEPT ![p] =
                        [op |-> op, pc |-> "write", timestamp |-> clock, got |-> 0]]
  /\ UNCHANGED <<clock, tempDir, batchVars, renderVars, storeVars, placeVars, clientVars>>

\* lines 27 and 155: fs.writeFileSync of the caller's document
ConcWrite(p) ==
  /\ invocation[p].pc = "write"
  /\ tempDir' = writeFile(tempDir,
                          IF invocation[p].op = "convert"
                          THEN inputPath(invocation[p].timestamp)
                          ELSE tempPath(invocation[p].timestamp),
                          p)
  /\ invocation' = [invocation EXCEPT ![p].pc = "exec"]
  /\ UNCHANGED <<clock, batchVars, renderVars, storeVars, placeVars, clientVars>>

\* lines 98 and 163: the subprocess works on whatever the path holds now
ConcExec(p) ==
  /\ invocation[p].pc = "exec"
  /\ IF invocation[p].op = "convert"
     THEN IF existsFile(tempDir, inputPath(invocation[p].timestamp))
          THEN /\ tempDir' = writeFile(tempDir, outputPath(invocation[p].timestamp),
                                       dataOf(tempDir, inputPath(invocation[p].timestamp)))
               /\ invocation' = [invocation EXCEPT ![p].pc = "read"]
          ELSE /\ invocation' = [invocation EXCEPT ![p].pc = "cleanup"]
               /\ UNCHANGED tempDir
     ELSE /\ invocation' =
               [invocation EXCEPT
                  ![p].pc = "cleanup",
                  ![p].got = IF existsFile(tempDir, tempPath(invocation[p].timestamp))
                             THEN dataOf(tempDir, tempPath(invocation[p].timestamp))
                             ELSE 0]
          /\ UNCHANGED tempDir
  /\ UNCHANGED <<clock, batchVars, renderVars, storeVars, placeVars, clientVars>>

\* line 101: fs.readFileSync(outputPath)
ConcRead(p) ==
  /\ invocation[p].pc = "read"
  /\ invocation' =
       [invocation EXCEPT
          ![p].pc = "cleanup",
          ![p].got = IF existsFile(tempDir, outputPath(invocation[p].timestamp))
                     THEN dataOf(tempDir, outputPath(invocation[p].timestamp))
                     ELSE 0]
  /\ UNCHANGED <<clock, tempDir, batchVars, renderVars, storeVars, placeVars, clientVars>>

\* the finally blocks, lines 107-115 and 183-189
ConcCleanup(p) ==
  /\ invocation[p].pc = "cleanup"
  /\ tempDir' = unlinkFiles(tempDir, pathsOf(invocation[p]))
  /\ invocation' = [invocation EXCEPT ![p] = noInvocation]
  /\ UNCHANGED <<clock, batchVars, renderVars, storeVars, placeVars, clientVars>>

\* a millisecond passes
ConcTick ==
  /\ clock < MaxClock
  /\ clock' = clock + 1
  /\ UNCHANGED <<tempDir, invocation, batchVars, renderVars, storeVars, placeVars, clientVars>>

ConcInit ==
  /\ concIdle
  /\ clientIdle
  /\ route = "none"
  /\ noBatchRequest
  /\ pc = "idle"
  /\ batchFresh
  /\ renderIdle
  /\ storeIdle
  /\ placeIdle

ConcNext ==
  \/ \E p \in Procs : ConcStart(p)
  \/ \E p \in Procs : ConcWrite(p)
  \/ \E p \in Procs : ConcExec(p)
  \/ \E p \in Procs : ConcRead(p)
  \/ \E p \in Procs : ConcCleanup(p)
  \/ ConcTick

ConcSpec == ConcInit /\ [][ConcNext]_vars

\* everything the fetch and the editor leave alone
serverVars == <<batchVars, renderVars, storeVars, placeVars, concVars>>
serverIdle ==
  /\ route = "none"
  /\ noBatchRequest
  /\ pc = "idle"
  /\ batchFresh
  /\ renderIdle
  /\ storeIdle
  /\ placeIdle
  /\ concIdle

\* ------------------------------------------------------ fetchBufferFromUrl
\* loadImageBuffer calls fetchBufferFromUrl(value), render.js lines 77-79
FetchStart ==
  /\ fetchState = "idle"
  /\ \E url \in FetchUrls : fetchUrl' = url
  /\ fetchState' = "requesting"
  /\ pending' = 1
  /\ UNCHANGED <<remote, editorVars, serverVars>>

\* lines 41-44: a 3xx with a Location is followed by a new call, whose
\* promise settles this one; nothing counts the calls, and the count kept
\* here stops at MaxPending without stopping the calls
FetchRedirect ==
  /\ fetchState = "requesting"
  /\ remote[fetchUrl].kind = "redirect"
  /\ fetchUrl' = remote[fetchUrl].location
  /\ pending' = IF pending < MaxPending THEN pending + 1 ELSE pending
  /\ UNCHANGED <<remote, fetchState, editorVars, serverVars>>

\* lines 45-47 and 53: a status of 400 and more, or a request error, rejects
FetchReject ==
  /\ fetchState = "requesting"
  /\ remote[fetchUrl].kind \in {"status4xx", "socketError"}
  /\ fetchState' = "rejected"
  /\ pending' = 0
  /\ UNCHANGED <<remote, fetchUrl, editorVars, serverVars>>

\* lines 48-50: the body is collected and resolves the promise on end
FetchResolve ==
  /\ fetchState = "requesting"
  /\ remote[fetchUrl].kind = "ok"
  /\ fetchState' = "resolved"
  /\ pending' = 0
  /\ UNCHANGED <<remote, fetchUrl, editorVars, serverVars>>

\* a server that stays silent enables nothing: no timeout is set on the
\* request and none on the socket
FetchInit ==
  /\ remote \in [FetchUrls -> Responses]
  /\ fetchUrl = noUrl
  /\ fetchState = "idle"
  /\ pending = 0
  /\ editorIdle
  /\ serverIdle

FetchNext ==
  \/ FetchStart
  \/ FetchRedirect
  \/ FetchReject
  \/ FetchResolve

FetchSpec == FetchInit /\ [][FetchNext]_vars

\* the event loop delivers every response that has arrived
FetchFairSpec == FetchSpec /\ WF_vars(FetchNext)

\* --------------------------------------------------------------- App.jsx
\* onUploadTemplate, lines 77-92: a new template document, without fields
\* and with an empty mapping, replaces the editor's fields and mapping
OnUploadTemplate ==
  /\ epc = "ready"
  /\ savedTemplate' = noTemplate
  /\ editor' = [editor EXCEPT !.hasTemplate = TRUE, !.fields = noFields,
                              !.mapping = noFieldMapping, !.fieldsDirty = FALSE]
  /\ UNCHANGED <<epc, uploads, fetchVars, serverVars>>

\* onUploadDataset, lines 94-119, when the editor has no fields or the user
\* confirms the replacement
OnUploadDataset ==
  /\ epc = "ready"
  /\ uploads < MaxUploads
  /\ uploads' = uploads + 1
  /\ \E headers \in Sheets :
       LET newFields == generateFieldsFromHeaders(headers, uploads)
       IN editor' = [editor EXCEPT !.hasDataset = TRUE, !.headers = headers,
                                   !.fields = newFields,
                                   !.mapping = mappingOfFields(newFields),
                                   !.fieldsDirty = TRUE]
  /\ UNCHANGED <<savedTemplate, epc, fetchVars, serverVars>>

\* onUploadDataset when the user declines the replacement, line 106
OnUploadDatasetKeep ==
  /\ epc = "ready"
  /\ uploads < MaxUploads
  /\ Len(editor.fields) > 0
  /\ uploads' = uploads + 1
  /\ \E headers \in Sheets :
       editor' = [editor EXCEPT !.hasDataset = TRUE, !.headers = headers]
  /\ UNCHANGED <<savedTemplate, epc, fetchVars, serverVars>>

\* handleFieldsChange, lines 199-202: the field editor moved a field
HandleFieldsChange ==
  /\ epc = "ready"
  /\ \E k \in 1..Len(editor.fields) :
       editor' = [editor EXCEPT
                    !.fields[k].x = IF @ = defaultX THEN movedX ELSE defaultX,
                    !.fieldsDirty = TRUE]
  /\ UNCHANGED <<savedTemplate, epc, uploads, fetchVars, serverVars>>

\* onSaveLayout, lines 123-138; the button is enabled on fieldsDirty or
\* mappingChanged (line 476)
OnSaveLayout ==
  /\ epc = "ready"
  /\ editor.hasTemplate
  /\ editor.fieldsDirty \/ mappingChanged(editor, savedTemplate)
  /\ savedTemplate' = putLayout(savedTemplate, layoutPayload(editor.fields, editor.mapping))
  /\ editor' = [editor EXCEPT !.fieldsDirty = FALSE]
  /\ UNCHANGED <<epc, uploads, fetchVars, serverVars>>

\* onPreview, lines 140-150: the layout is saved first when fieldsDirty
PreviewSave ==
  /\ epc = "ready"
  /\ editor.hasTemplate /\ editor.hasDataset
  /\ editor.fieldsDirty
  /\ savedTemplate' = putLayout(savedTemplate, layoutPayload(editor.fields, editor.mapping))
  /\ epc' = "previewSaved"
  /\ UNCHANGED <<editor, uploads, fetchVars, serverVars>>

\* lines 148-155: the flag is cleared and the preview request is sent
PreviewSend ==
  /\ \/ epc = "previewSaved"
     \/ epc = "ready" /\ editor.hasTemplate /\ editor.hasDataset /\ ~editor.fieldsDirty
  /\ editor' = [editor EXCEPT !.fieldsDirty = FALSE]
  /\ epc' = "previewing"
  /\ UNCHANGED <<savedTemplate, uploads, fetchVars, serverVars>>

\* onDownloadPDF, lines 165-179: saveLayout(template._id, { fields })
DownloadSave ==
  /\ epc = "ready"
  /\ editor.hasTemplate /\ editor.hasDataset
  /\ editor.fieldsDirty
  /\ savedTemplate' = putLayout(savedTemplate, fieldsPayload(editor.fields, editor.mapping))
  /\ epc' = "downloadSaved"
  /\ UNCHANGED <<editor, uploads, fetchVars, serverVars>>

\* lines 177-180: the flag is cleared and the batch request is sent
DownloadSend ==
  /\ \/ epc = "downloadSaved"
     \/ epc = "ready" /\ editor.hasTemplate /\ editor.hasDataset /\ ~editor.fieldsDirty
  /\ editor' = [editor EXCEPT !.fieldsDirty = FALSE]
  /\ epc' = "generating"
  /\ UNCHANGED <<savedTemplate, uploads, fetchVars, serverVars>>

\* the response arrives and the finally block ends the handler
RequestDone ==
  /\ epc \in {"previewing", "generating"}
  /\ epc' = "ready"
  /\ UNCHANGED <<editor, savedTemplate, uploads, fetchVars, serverVars>>

EditorInit ==
  /\ editor = noEditor
  /\ savedTemplate = noTemplate
  /\ epc = "ready"
  /\ uploads = 0
  /\ fetchIdle
  /\ serverIdle

EditorNext ==
  \/ OnUploadTemplate
  \/ OnUploadDataset
  \/ OnUploadDatasetKeep
  \/ HandleFieldsChange
  \/ OnSaveLayout
  \/ PreviewSave
  \/ PreviewSend
  \/ DownloadSave
  \/ DownloadSend
  \/ RequestDone

EditorSpec == EditorInit /\ [][EditorNext]_vars

Next ==
  \/ PreviewNotFound
  \/ PreviewRender
  \/ PreviewRenderFails
  \/ NotFound
  \/ Prepare
  \/ ProcessRow
  \/ RenderFails
  \/ DocEnd
  \/ ConvWriteInput
  \/ ConvExec
  \/ ConvRead
  \/ ConvCleanup
  \/ ValWrite
  \/ ValExec
  \/ ValCleanup
  \/ Upload
  \/ UploadFails

Spec == Init /\ [][Next]_vars

\* the event loop runs every handler that is ready
FairSpec == Spec /\ WF_vars(Next)
\* =================================================================== claims
CeilDiv(a, b) == (a + b - 1) \div b

\* C1: with cardsPerPage = P > 0, the k-th rendered card (k from 0) is the
\* record start + k, lands on page floor(k / P) in cell k mod P, at
\* row floor((k mod P) / cardsPerRow) and col (k mod P) mod cardsPerRow, and
\* a batch of N >= 1 records that has been laid out has ceil(N / P) pages.
C1_PlacementInRowOrder ==
  layout.cardsPerPage > 0 =>
    /\ \A n \in 1..Len(placed) :
         LET k == n - 1
             P == layout.cardsPerPage
         IN /\ placed[n].record = start + k
            /\ placed[n].page = k \div P
            /\ placed[n].cardIndex = k % P
            /\ placed[n].row = (k % P) \div layout.cardsPerRow
            /\ placed[n].col = (k % P) % layout.cardsPerRow
    /\ (pdfBuffer # "none" /\ Len(placed) >= 1) =>
         /\ Len(placed) = end - start
         /\ pages = CeilDiv(Len(placed), layout.cardsPerPage)

\* C1 witness: a finished three-card batch at two cards per page, two pages
C1_Witness ==
  /\ pdfBuffer # "none"
  /\ layout.cardsPerPage = 2
  /\ Len(placed) = 3
  /\ pages = 2
  /\ placed[3].page = 1

CandidateWidths == {firstTestWidth + testWidthStep * n : n \in 0..10}

\* the grid the claim derives for candidate width w: the largest counts that
\* fit, cardsPerRow * w <= usableWidth and cardsPerCol * (w / ratio) <= usableHeight
fitsRow(r, w) == r * w * 100 <= usableWidth
fitsCol(c, w, tw, th) == c * w * th * 100 <= usableHeight * tw
gridOf(w, tw, th) ==
  [r |-> CHOOSE r \in 0..4 : fitsRow(r, w) /\ ~fitsRow(r + 1, w),
   c |-> CHOOSE c \in 0..60 : fitsCol(c, w, tw, th) /\ ~fitsCol(c + 1, w, tw, th)]

acceptedWidths(tw, th) ==
  {w \in CandidateWidths :
     /\ w * 100 <= MinOf(maxTestWidth * 100, usableWidth)
     /\ gridOf(w, tw, th).r > 0
     /\ gridOf(w, tw, th).c > 0}

\* C2: whenever some candidate width 200, 220, ..., min(400, usableWidth)
\* gives a positive grid, the layout the row loop runs with is one of them, carries that
\* candidate's height and counts, has the largest cardsPerRow * cardsPerCol
\* of all accepted candidates, and is the smallest width among those tied.
C2_PlannerSelectsMaximum ==
  LET tw == templateWidthOf(imageMeta.width)
      th == templateHeightOf(imageMeta.height)
      acc == acceptedWidths(tw, th)
  IN (pc = "loop" /\ acc # {}) =>
       /\ layout.found
       /\ layout.cardWidth \in acc
       /\ layout.hNum * tw = layout.cardWidth * th * layout.hDen
       /\ layout.cardsPerRow = gridOf(layout.cardWidth, tw, th).r
       /\ layout.cardsPerCol = gridOf(layout.cardWidth, tw, th).c
       /\ layout.cardsPerPage = layout.cardsPerRow * layout.cardsPerCol
       /\ \A w \in acc :
            LET g == gridOf(w, tw, th)
            IN /\ g.r * g.c <= layout.cardsPerPage
               /\ g.r * g.c = layout.cardsPerPage => layout.cardWidth <= w

\* C2 witness: a layout was selected while a wider candidate ties with it
C2_Witness ==
  LET tw == templateWidthOf(imageMeta.width)
      th == templateHeightOf(imageMeta.height)
  IN /\ pc = "loop"
     /\ layout.found
     /\ \E w \in acceptedWidths(tw, th) :
          /\ w > layout.cardWidth
          /\ gridOf(w, tw, th).r * gridOf(w, tw, th).c = layout.cardsPerPage

\* C3: when no candidate width gives a positive grid the planner falls back
\* to width 280 with height 280 / aspectRatio, and a plan of 0 cards per page
\* stops the batch: no card is placed, nothing is converted, uploaded or
\* returned as a document.
C3_DegenerateLayoutStopsBatch ==
  LET tw == templateWidthOf(imageMeta.width)
      th == templateHeightOf(imageMeta.height)
  IN (pc \notin {"lookup", "idle"} /\ response.kind # "404"
      /\ ~layout.found /\ acceptedWidths(tw, th) = {}) =>
       /\ layout.cardWidth = fallbackWidth
       /\ layout.hNum * tw = fallbackWidth * th * layout.hDen
       /\ layout.cardsPerPage = 0 =>
            /\ placed = <<>>
            /\ gsRuns = 0
            /\ uploaded = noUpload
            /\ response.kind # "json"

\* C4: cmykCompatible is true in the response only if the conversion ran and
\* succeeded, and the delivered document is the converter's output.
C4_FlagOnlyAfterConversion ==
  (response.kind = "json" /\ response.cmykCompatible) =>
    /\ gsRuns > 0
    /\ ~convError
    /\ uploaded.buffer = cmykBuffer
    /\ cmykBuffer # "none"

\* the conversion was attempted and failed: the subprocess or a file
\* operation raised, or the output read back is empty
conversionFailed ==
  /\ shouldConvertToCMYK
  /\ pc \in {"upload", "done"}
  /\ pdfBuffer # "none"
  /\ (convError \/ cmykBuffer = "EMPTY")

\* C5: after a failed conversion the document uploaded and returned is the
\* pre-conversion document under its original name, and no conversion result
\* is reported.
C5_FailedConversionDeliversRGB ==
  (conversionFailed /\ uploaded # noUpload) =>
    /\ uploaded.buffer = "RGB"
    /\ uploaded.filename = "batch.pdf"
    /\ response.kind = "json"
    /\ response.filename = "batch.pdf"
    /\ ~response.cmykConversion.present

\* C6: when CMYK is requested and the probe reports the converter absent, no
\* gs subprocess is started, no temporary file is written, nothing throws
\* out of a conversion, the document stays the original bytes under the
\* original name, and the response reports no conversion (not fully
\* converted, not CMYK compatible).
C6_ProbeNegativeSkipsConversion ==
  (cmyk /\ probe = "absent") =>
    /\ ~shouldConvertToCMYK
    /\ gsRuns = 0
    /\ tmpFiles = {}
    /\ ~convError /\ ~valError
    /\ pdfBuffer \in {"none", "RGB"}
    /\ pc \notin {"convWrite", "convExec", "convRead", "convCleanup", "convHung",
                  "valWrite", "valExec", "valCleanup", "valHung"}
    /\ uploaded # noUpload => uploaded = [buffer |-> "RGB", filename |-> "batch.pdf"]
    /\ response.kind = "json" =>
         /\ ~response.cmykConversion.present
         /\ ~response.cmykConversion.fullyConverted
         /\ ~response.cmykCompatible
         /\ response.filename = "batch.pdf"

\* C6 witness: a CMYK request answered with the document while gs is absent
C6_Witness ==
  /\ cmyk
  /\ probe = "absent"
  /\ response.kind = "json"
  /\ uploaded.buffer = "RGB"

\* C7: once convertToCMYK has returned or thrown, neither its input nor its
\* output file exists, and once validateCMYKPDF has returned its validation
\* file does not exist, on every exit path.
C7_TempFilesRemoved ==
  /\ pc \in {"valWrite", "valExec", "valCleanup", "valHung", "upload", "done"} =>
       tmpFiles \cap {"input", "output"} = {}
  /\ pc \in {"upload", "done"} => "validate" \notin tmpFiles

\* C8: a conversion result with fullyConverted = true has validation.isCMYK
\* = true and validation.hasRGB = false.
C8_FullyConvertedExcludesRGB ==
  (conversionResult.present /\ conversionResult.fullyConverted) =>
    /\ conversionResult.validation.isCMYK
    /\ ~conversionResult.validation.hasRGB

\* C9: once the converter subprocess is about to be started, the batch job
\* eventually completes, whatever the subprocess does.
C9_ConverterCallTerminates ==
  (pc = "convExec") ~> (pc = "done")
\* the fields the loop of renderOne has been through
processedFields == 1..(fieldIndex - 1)
unmappedImageField(k) == fields[k].type = "image" /\ mapping[k] = undefinedValue
layersFor(k) == {n \in 1..Len(composites) : composites[n].field = k}

\* C10 as stated: an Image-kind field whose mapping entry is unset is
\* skipped, no composite layer is emitted for it.
C10_UnmappedImageFieldSkipped ==
  \A k \in processedFields : unmappedImageField(k) => layersFor(k) = {}

\* C10 amended: for an Image-kind field whose mapping entry is unset no image
\* is resolved and the field is not skipped: exactly one layer is emitted
\* for it, a text layer carrying the empty string.
C10_UnmappedImageFieldIsEmptyText ==
  \A k \in processedFields :
    unmappedImageField(k) =>
      /\ k \notin loadCalls
      /\ Cardinality(layersFor(k)) = 1
      /\ \A n \in layersFor(k) :
           composites[n].kind = "text" /\ composites[n].text = ""

\* C10 witness: a finished render of a template with such a field
C10_Witness ==
  /\ rpc = "done"
  /\ \E k \in processedFields : unmappedImageField(k) /\ layersFor(k) # {}

\* ---------------------------------------------------------------- C11
absentValue(k) == sourceValueOf(mapping, record, k) = undefinedValue

\* C11: a field whose mapped value is absent (no mapping entry, or the
\* mapped column missing from the record) is rendered as exactly one text
\* layer with the empty string, which is well-formed, and a render that got
\* past the base image fails only when some field has a value.
C11_AbsentValueIsEmptyText ==
  /\ \A k \in processedFields :
       absentValue(k) =>
         /\ Cardinality(layersFor(k)) = 1
         /\ \A n \in layersFor(k) :
              /\ composites[n].kind = "text"
              /\ composites[n].text = ""
              /\ svgWellFormed(composites[n].text)
  /\ (rpc = "failed" /\ fieldIndex > 1) =>
       \E k \in processedFields : ~absentValue(k)

\* C11 witness: a finished render with a text field mapped to a column the
\* record lacks
C11_Witness ==
  /\ rpc = "done"
  /\ \E k \in processedFields :
       /\ fields[k].type = "text"
       /\ mapping[k] # undefinedValue
       /\ absentValue(k)
       /\ layersFor(k) # {}

\* ---------------------------------------------------------------- C12
failedFields == {loadLog[n].field : n \in 1..Len(loadLog)}

\* C12 as stated: a failure of a field's image never propagates out of the
\* record render: the field gets one text layer carrying the raw value, the
\* render does not fail afterwards, and a finished render has a layer for
\* every field.
C12_ImageFailureNeverPropagates ==
  /\ \A k \in failedFields :
       /\ Cardinality(layersFor(k)) = 1
       /\ \A n \in layersFor(k) :
            /\ composites[n].kind = "text"
            /\ composites[n].text = sourceValueOf(mapping, record, k)
  /\ failedFields # {} => rpc # "failed"
  /\ (failedFields # {} /\ rpc = "done") => Len(composites) = Len(fields)

\* ---------------------------------------------------------------- C13
templateOrDatasetMissing ==
  /\ pc # "lookup"
  /\ \/ route \in {"batch", "preview"} /\ ~lookup.template
     \/ route = "batch" /\ ~lookup.dataset

C16_SpacingFillsUsableArea ==
  (pc = "loop" /\ layout.cardsPerRow > 0 /\ layout.cardsPerCol > 0) =>
    LET exactHeight == reduced([num |-> layout.hNum, den |-> layout.hDen])
    IN /\ layout.cardsPerRow * layout.cardWidth * 100 * spacing.h.den
            + (layout.cardsPerRow + 1) * spacing.h.num
          = usableWidth * spacing.h.den
       /\ layout.cardsPerCol * exactHeight.num * 100 * spacing.v.den
            + (layout.cardsPerCol + 1) * spacing.v.num * exactHeight.den
          = usableHeight * spacing.v.den * exactHeight.den

\* C16 witness: a grid of several columns and rows with room left over
C16_Witness ==
  /\ pc = "loop"
  /\ layout.cardsPerRow > 1
  /\ layout.cardsPerCol > 1
  /\ spacing.h.num > 0
  /\ spacing.v.num > 0

\* ---------------------------------------------------------------- C18
\* C18: when renderOne rejects (the base image cannot be loaded), the
\* request ends with an error; in a batch no document is built, converted,
\* uploaded or returned.
C18_RenderFailureEndsRequest ==
  renderError =>
    /\ pc = "done"
    /\ response.kind = "error"
    /\ pdfBuffer = "none"
    /\ gsRuns = 0
    /\ tmpFiles = {}
    /\ conversionResult = nullResult
    /\ uploaded = noUpload

\* C18 witness: a batch that failed on a later record, after placing cards
C18_Witness ==
  /\ route = "batch"
  /\ renderError
  /\ placed # <<>>

\* ---------------------------------------------------------------- C19
\* C19 as stated: a conversion whose subprocess succeeded but left an empty
\* or no output file throws; an empty buffer is never a successful result.
C19_EmptyOrMissingOutputThrows ==
  /\ (pc = "convCleanup" /\ cmykBuffer \in {"none", "EMPTY"}) => convError
  /\ conversionResult.present => conversionResult.buffer # "EMPTY"

\* ---------------------------------------------------------------- C14
onPrimaryPath == ppc \in {"center", "placed"}
cell == [width |-> exactly(cardWidth), height |-> cardHeight]
sameValue(a, b) == a.num * b.den = b.num * a.den
lessValue(a, b) == a.num * b.den < b.num * a.den
withinUlps(a, n) == a.k \in -n..n

\* C14 as stated: the drawn size has exactly the image's aspect ratio and
\* fits the cell, finalWidth <= cardWidth and finalHeight <= cardHeight, with
\* equality in one of the two.
C14_FitKeepsAspectAndFits ==
  onPrimaryPath =>
    /\ sameValue(quotient(finalWidth, finalHeight),
                 [num |-> imageInfo.width, den |-> imageInfo.height])
    /\ finalWidth.k = finalHeight.k
    /\ ~fgt(finalWidth, cell.width)
    /\ ~fgt(finalHeight, cell.height)
    /\ finalWidth = cell.width \/ finalHeight = cell.height

\* C14 amended: the same up to floating-point rounding: the exact values of
\* the drawn size have the image's aspect ratio and fit the cell with
\* equality in one dimension, one dimension is the cell's own double, and
\* the computed doubles are within four units in the last place of the
\* exact values.
C14_FitKeepsAspectUpToRounding ==
  onPrimaryPath =>
    /\ sameValue(quotient(finalWidth, finalHeight),
                 [num |-> imageInfo.width, den |-> imageInfo.height])
    /\ ~lessValue(cell.width, finalWidth)
    /\ ~lessValue(cell.height, finalHeight)
    /\ sameValue(finalWidth, cell.width) \/ sameValue(finalHeight, cell.height)
    /\ finalWidth = cell.width \/ finalHeight = cell.height
    /\ withinUlps(finalWidth, 4)
    /\ withinUlps(finalHeight, 4)

\* C14 witness: a card of another aspect ratio than its cell, drawn smaller
\* than the cell in one dimension
C14_Witness ==
  /\ ppc = "placed"
  /\ lessValue(finalWidth, cell.width) \/ lessValue(finalHeight, cell.height)

\* ---------------------------------------------------------------- C15
imageRatio == [num |-> imageInfo.width, den |-> imageInfo.height]
cellRatio == quotient(cell.width, cell.height)
isZero(a) == a.num = 0 /\ a.k = 0
isPositive(a) == a.num > 0
isNegative(a) == a.num < 0 \/ (a.num = 0 /\ a.k < 0)

\* C15 as stated: both offsets are >= 0 and one of them is 0; equal aspect
\* ratios give offsetX = offsetY = 0, a narrower card offsetX > 0 and
\* offsetY = 0, a wider card offsetY > 0 and offsetX = 0.
C15_OffsetsCentreTheCard ==
  ppc = "placed" =>
    /\ ~isNegative(offsetX)
    /\ ~isNegative(offsetY)
    /\ isZero(offsetX) \/ isZero(offsetY)
    /\ sameValue(imageRatio, cellRatio) => isZero(offsetX) /\ isZero(offsetY)
    /\ lessValue(imageRatio, cellRatio) => isPositive(offsetX) /\ isZero(offsetY)
    /\ lessValue(cellRatio, imageRatio) => isPositive(offsetY) /\ isZero(offsetX)

\* C15 amended: the same up to floating-point rounding: one offset is
\* exactly 0 and neither is negative in exact arithmetic; equal aspect
\* ratios give offsets that are 0 or a rounding residue of at most two units
\* in the last place of the cell size, of either sign; a narrower card has
\* offsetX > 0 and offsetY = 0, a wider card offsetY > 0 and offsetX = 0.
C15_OffsetsCentreUpToRounding ==
  ppc = "placed" =>
    /\ offsetX.num >= 0
    /\ offsetY.num >= 0
    /\ isZero(offsetX) \/ isZero(offsetY)
    /\ sameValue(imageRatio, cellRatio) =>
         /\ offsetX.num = 0 /\ withinUlps(offsetX, 2)
         /\ offsetY.num = 0 /\ withinUlps(offsetY, 2)
    /\ lessValue(imageRatio, cellRatio) => isPositive(offsetX) /\ isZero(offsetY)
    /\ lessValue(cellRatio, imageRatio) => isPositive(offsetY) /\ isZero(offsetX)

\* C15 witness: a card of the cell's aspect ratio placed with a negative
\* rounding residue as horizontal offset
C15_Witness ==
  /\ ppc = "placed"
  /\ sameValue(imageRatio, cellRatio)
  /\ offsetX.num = 0
  /\ offsetX.k < 0

\* ---------------------------------------------------------------- C17
\* C17: the recorded size of a stored template is the size of its stored
\* base image whatever fields, mapping or layout updates were made, and the
\* card a render returns has that size whatever the fields are.
C17_CardHasTemplateSize ==
  /\ stored => imageMeta = baseImage
  /\ (stored /\ rpc = "done") => card = imageMeta

\* C17 witness: a render of a template whose fields and mapping were set
\* after the upload has returned
C17_Witness ==
  /\ stored
  /\ rpc = "done"
  /\ Len(fields) = MaxFields
  /\ mapping # noMapping
  /\ card = imageMeta

\* ---------------------------------------------------------------- C20
active(p) == invocation[p].op # "none"

\* C20 as stated: two invocations in progress at the same time never use the
\* same temporary path, and no invocation reads a file another one wrote.
C20_TempPathsNeverShared ==
  /\ \A p \in Procs, q \in Procs :
       (p # q /\ active(p) /\ active(q)) =>
         pathsOf(invocation[p]) \cap pathsOf(invocation[q]) = {}
  /\ \A p \in Procs : invocation[p].got \in {0, p}

C23_ValidatorFailureIsInconclusive ==
  (valError /\ pc \in {"upload", "done"}) =>
    /\ conversionResult.present
    /\ conversionResult.buffer = cmykBuffer
    /\ ~conversionResult.fullyConverted
    /\ ~conversionResult.validation.isCMYK
    /\ conversionResult.validation.hasRGB
    /\ pdfBuffer = cmykBuffer
    /\ finalFileName = "batch-cmyk.pdf"
    /\ response.kind = "json" =>
         /\ uploaded.buffer = cmykBuffer
         /\ response.cmykConversion = conversionResult
    /\ response.kind = "error" => uploaded = noUpload

\* C23 witness: a batch answered with the converted document after the
\* validator failed
C23_Witness ==
  /\ valError
  /\ response.kind = "json"
  /\ uploaded.buffer = "CMYK"

\* ---------------------------------------------------------------- C26
\* C26 as stated: the count of a batch response is the number of records
\* rendered and placed into the delivered document.
C26_CountIsRecordsPlaced ==
  response.kind = "json" => response.count = Len(placed)

\* ---------------------------------------------------------------- C27
\* C27 as stated (its progress half): a batch request that passed the
\* lookups is eventually answered.
C27_BatchEventuallyAnswered ==
  (pc = "loop") ~> (response.kind # "none")

\* ---------------------------------------------------------------- C28
insideUsableArea(pos, size, lo, hi) ==
  /\ lo * pos.den <= pos.num
  /\ pos.num * size.den + size.num * 100 * pos.den <= hi * pos.den * size.den

\* a ends before b begins, a and b being positions and size the extent
before(a, b, size) ==
  a.num * b.den * size.den + size.num * 100 * a.den * b.den
    <= b.num * a.den * size.den

\* C28: with a positive grid both spacings are >= 0, every cell lies inside
\* the usable page area and two cells of one page do not overlap.
C28_CellsInsideAndDisjoint ==
  (pc = "loop" /\ layout.cardsPerRow > 0 /\ layout.cardsPerCol > 0) =>
    LET w == [num |-> layout.cardWidth, den |-> 1]
        h == reduced([num |-> layout.hNum, den |-> layout.hDen])
    IN /\ spacing.h.num >= 0 /\ spacing.h.den > 0
       /\ spacing.v.num >= 0 /\ spacing.v.den > 0
       /\ \A n \in 1..Len(placed) :
            /\ insideUsableArea(placed[n].x, w, margin, pageWidth - margin)
            /\ insideUsableArea(placed[n].y, h, margin, pageHeight - margin)
       /\ \A n \in 1..Len(placed), m \in 1..Len(placed) :
            (n # m /\ placed[n].page = placed[m].page) =>
              \/ before(placed[n].x, placed[m].x, w)
              \/ before(placed[m].x, placed[n].x, w)
              \/ before(placed[n].y, placed[m].y, h)
              \/ before(placed[m].y, placed[n].y, h)

\* C28 witness: a page holding cards in two rows
C28_Witness ==
  /\ pc = "loop"
  /\ \E n \in 1..Len(placed), m \in 1..Len(placed) :
       /\ placed[n].page = placed[m].page
       /\ placed[n].row = 0
       /\ placed[m].row = 1

\* ---------------------------------------------------------------- C30
cardsPerPageAt(w, tw, th) == gridOf(w, tw, th).r * gridOf(w, tw, th).c

\* C30: whenever the width search finds a layout, the selected width is 200
\* and no candidate gives more cards per page than 200 does; when 200 is not
\* valid no candidate is, and no layout is found.
C30_SelectedWidthIsSmallest ==
  LET tw == templateWidthOf(imageMeta.width)
      th == templateHeightOf(imageMeta.height)
      acc == acceptedWidths(tw, th)
  IN pc = "loop" =>
       /\ layout.found =>
            /\ layout.cardWidth = 200
            /\ \A w \in acc : cardsPerPageAt(w, tw, th) <= cardsPerPageAt(200, tw, th)
       /\ 200 \notin acc => (acc = {} /\ ~layout.found)

\* C30 witness: 200 was selected while a wider candidate is valid and gives
\* fewer cards per page
C30_Witness ==
  LET tw == templateWidthOf(imageMeta.width)
      th == templateHeightOf(imageMeta.height)
  IN /\ pc = "loop"
     /\ layout.found
     /\ layout.cardWidth = 200
     /\ \E w \in acceptedWidths(tw, th) :
          cardsPerPageAt(w, tw, th) < layout.cardsPerPage

\* the place of a source in the order data URI, storage, network, filesystem
sourceRank(source) ==
  CASE source = "dataUri" -> 1
    [] source = "storage" -> 2
    [] source = "network" -> 3
    [] source = "filesystem" -> 4

\* C21: every image load reads its sources in the order data URI, storage
\* reference, HTTP(S) URL, local path; a source that gave bytes is the last
\* one read and its bytes are what the load returns; a data-URI value reads
\* nothing but itself
C21_SourcesInFixedOrder ==
  \A n \in 1..Len(consulted) :
    LET reads == consulted[n].reads
    IN /\ \A a \in 1..Len(reads), b \in 1..Len(reads) :
            a < b => /\ sourceRank(reads[a].source) < sourceRank(reads[b].source)
                     /\ reads[a].outcome # "bytes"
       /\ consulted[n].buf <=> (Len(reads) > 0 /\ reads[Len(reads)].outcome = "bytes")
       /\ isDataUri(consulted[n].value) =>
            reads = <<[source |-> "dataUri", outcome |-> "bytes"]>>

\* a storage reference whose storage read gave nothing was then looked up,
\* and found, on the local path; and another load was served from storage
C21_Witness ==
  /\ \E n \in 1..Len(consulted) :
       /\ Len(consulted[n].reads) = 2
       /\ consulted[n].reads[1].source = "storage"
       /\ consulted[n].reads[2] = [source |-> "filesystem", outcome |-> "bytes"]
       /\ consulted[n].buf
  /\ \E n \in 1..Len(consulted) :
       consulted[n].reads = <<[source |-> "storage", outcome |-> "bytes"]>>

\* C24: the layers are in the order of the fields array, whatever the
\* zIndex of the fields: a layer of a later field lies above every layer of
\* an earlier field
C24_LayersInArrayOrder ==
  \A n \in 1..Len(composites), m \in 1..Len(composites) :
    n < m => composites[n].field < composites[m].field

\* a finished card of two layers whose first field has the higher zIndex
C24_Witness ==
  /\ rpc = "done"
  /\ Len(fields) = 2
  /\ Len(composites) = 2
  /\ fields[1].zIndex > fields[2].zIndex

\* the ids a mapping names are ids of the fields
belongsTo(map, flds) ==
  {m.id : m \in map} \subseteq {flds[k].id : k \in 1..Len(flds)}

\* the template document holds what the editor holds
savedIsCurrent ==
  /\ savedTemplate.fields = editor.fields
  /\ savedTemplate.mapping = editor.mapping

\* C25: while a preview or batch request is in flight the template document
\* holds the editor's fields and the editor's mapping, and its mapping names
\* only ids of its fields; the unsaved-changes flag of an editor that has a
\* template is clear only when the document holds what the editor holds
C25_GenerationUsesSavedLayout ==
  /\ epc \in {"previewing", "generating"} =>
       savedIsCurrent /\ belongsTo(savedTemplate.mapping, savedTemplate.fields)
  /\ (editor.hasTemplate /\ ~editor.fieldsDirty) => savedIsCurrent

\* C29: a fetch that was started settles, with bytes or with a rejection
C29_FetchAlwaysSettles ==
  (fetchState = "requesting") ~> (fetchState \in {"resolved", "rejected"})
====
